---- MODULE Spec2Model ----
(***************************************************************************)
(* AP bulk import: the supplier-list validation run                        *)
(* (1_supplier_list_validation.py) and the claim run (2_claim_devices.py). *)
(*                                                                         *)
(* Python strings are sequences of one-character strings, so that split,   *)
(* lower, strip, startswith, zfill and the regular expressions are         *)
(* computed character by character, as the code computes them.             *)
(***************************************************************************)
EXTENDS Integers, Sequences, FiniteSets, TLC

VARIABLES
    fn_in, fn_out,              \* a call of a pure function: arguments, result
    pc,                         \* position of the validation run's main()
    run,                        \* 1 = first validation run, 2 = the re-run
    manifest,                   \* df_input: the rows of INPUT_FILE
    remote,                     \* the remote directory: organizations, inventories, networks, devices
    dash,                       \* what get_dashboard_data returned
    idx,                        \* rows of df_input already iterated
    network_usage_counter,      \* usage_cache: network id -> last issued number
    network_address_cache,      \* address_cache: network id -> address
    ignored_list, error_list, validated_list,
    issued,                     \* history: what each get_next_ap_number call returned
    reads,                      \* history: each getNetworkDevices call and its outcome
    prev_run,                   \* history: the output and the reads of the first run
    cpc,                        \* position of the claim run's main()
    input_file,                 \* the rows of the claim run's INPUT_FILE
    df,                         \* the claim run's data frame
    critical_error,
    grouped,                    \* the groups the loop of line 98 has yet to take
    group,                      \* the rows of the group being processed
    claimed_successfully,       \* of that group, the serials yet to update
    failed_serials,
    claim_calls,                \* history: the claimNetworkDevices calls
    update_calls,               \* history: the updateDevice calls
    renamed_to                  \* the prefix INPUT_FILE was moved under

val_vars == <<pc, run, manifest, remote, dash, idx, network_usage_counter,
              network_address_cache, ignored_list, error_list, validated_list,
              issued, reads, prev_run>>
fn_vars == <<fn_in, fn_out>>
claim_vars == <<cpc, input_file, df, critical_error, grouped, group,
                claimed_successfully, failed_serials, claim_calls,
                update_calls, renamed_to>>
vars == <<fn_vars, val_vars, claim_vars>>

----------------------------------------------------------------------------
(* Python values *)

\* None, where a string is expected: no sequence of characters equals it.
None == <<"None">>

Falsy(x) == x = None \/ x = <<>>

UpperCase == <<"A","B","C","D","E","F","G","H","I","J","K","L","M",
               "N","O","P","Q","R","S","T","U","V","W","X","Y","Z">>
LowerCase == <<"a","b","c","d","e","f","g","h","i","j","k","l","m",
               "n","o","p","q","r","s","t","u","v","w","x","y","z">>
DigitChars == <<"0","1","2","3","4","5","6","7","8","9">>

Range(s) == {s[i] : i \in 1..Len(s)}

AsciiLetter == Range(UpperCase) \cup Range(LowerCase)
AsciiDigit == Range(DigitChars)
AsciiAlnum == AsciiLetter \cup AsciiDigit

\* str.lower() on an upper-case letter
LowerOf == [c \in Range(UpperCase) |->
               LowerCase[CHOOSE i \in 1..Len(UpperCase) : UpperCase[i] = c]]

\* str.lower() on one character
lower_char(c) == IF c \in DOMAIN LowerOf THEN LowerOf[c] ELSE c

\* str.lower()
lower(s) == [i \in 1..Len(s) |-> lower_char(s[i])]

\* str.startswith(p)
startswith(s, p) == Len(p) <= Len(s) /\ SubSeq(s, 1, Len(p)) = p

\* str.strip(chars): every leading and trailing character of chars goes
RECURSIVE lstrip(_, _)
lstrip(s, chars) ==
    IF Len(s) > 0 /\ s[1] \in chars THEN lstrip(Tail(s), chars) ELSE s

RECURSIVE rstrip(_, _)
rstrip(s, chars) ==
    IF Len(s) > 0 /\ s[Len(s)] \in chars
    THEN rstrip(SubSeq(s, 1, Len(s) - 1), chars)
    ELSE s

strip(s, chars) == rstrip(lstrip(s, chars), chars)

\* str.split('-')
RECURSIVE split(_)
split(s) ==
    IF \A i \in 1..Len(s) : s[i] # "-"
    THEN <<s>>
    ELSE LET k == CHOOSE i \in 1..Len(s) :
                      s[i] = "-" /\ \A j \in 1..(i - 1) : s[j] # "-"
         IN <<SubSeq(s, 1, k - 1)>> \o split(SubSeq(s, k + 1, Len(s)))

\* '-'.join(parts)
RECURSIVE join(_)
join(parts) ==
    IF Len(parts) = 0 THEN <<>>
    ELSE IF Len(parts) = 1 THEN parts[1]
    ELSE parts[1] \o <<"-">> \o join(Tail(parts))

\* dict.get(key, default)
get(d, key, default) == IF key \in DOMAIN d THEN d[key] ELSE default

\* the regular expression's '$': the end of the string, or just before a
\* newline that ends the string
at_dollar(s, n) == Len(s) = n \/ (Len(s) = n + 1 /\ s[n + 1] = "\n")

\* re.match(r"^[class]{n}$", s)
re_match_n(s, class, n) ==
    at_dollar(s, n) /\ \A i \in 1..n : s[i] \in class

\* re.match(r"^[class]+$", s)
re_match_plus(s, class) ==
    \E n \in 1..Len(s) : at_dollar(s, n) /\ \A i \in 1..n : s[i] \in class

----------------------------------------------------------------------------
(* validate_and_extract_prefix *)

CcLen == 2
RegLen == 3
MinParts == 4

\* the pair (ap_prefix, error_msg)
validate_and_extract_prefix(full_net_name) ==
    LET parts == split(full_net_name) IN
    IF Len(parts) < MinParts
    THEN <<None, <<"Format invalid. Expected: CC-REG-PID-Company Name">> >>
    ELSE LET cc == parts[1]
             reg == parts[2]
             pid == parts[3]
         IN IF ~re_match_n(cc, AsciiLetter, CcLen)
            THEN <<None, <<"Invalid Country Code: ", cc>> >>
            ELSE IF ~re_match_n(reg, AsciiAlnum, RegLen)
            THEN <<None, <<"Invalid Region Code: ", reg>> >>
            ELSE IF ~re_match_plus(pid, AsciiAlnum)
            THEN <<None, <<"Invalid Partner ID: ", pid>> >>
            ELSE <<cc \o <<"-">> \o reg \o <<"-">> \o pid, None>>

----------------------------------------------------------------------------
(* find_network_match *)

\* a slip: the unique exact match does not win over the prefix matches
find_network_match_prefix_only(csv_name, network_list) ==
    SelectSeq(network_list,
              LAMBDA n : startswith(lower(n.netName), lower(csv_name)))

find_network_match(csv_name, network_list) ==
    LET csv_name_clean == lower(csv_name)
        IsExact(n) == lower(n.netName) = csv_name_clean
        IsPartial(n) == startswith(lower(n.netName), csv_name_clean)
        exact_matches == SelectSeq(network_list, IsExact)
        partial_matches == SelectSeq(network_list, IsPartial)
    IN IF Len(exact_matches) = 1 THEN exact_matches ELSE partial_matches

----------------------------------------------------------------------------
(* get_next_ap_number *)

\* dict[key] = value
put(d, key, value) ==
    [k \in (DOMAIN d) \cup {key} |-> IF k = key THEN value ELSE d[k]]

EmptyDict == [k \in {} |-> k]

\* the characters str.strip() removes
Whitespace == {" ", "\t", "\n", "\r"}

DigitValue == [c \in Range(DigitChars) |->
                 (CHOOSE i \in 1..Len(DigitChars) : DigitChars[i] = c) - 1]

digit_value(c) == DigitValue[c]

sAP == <<"-", "A", "P">>
sN == <<"-", "N">>
sNone == <<"n", "o", "n", "e">>

ApDigits == 2

\* re.match(rf"^{re.escape(naming_prefix)}-AP(\d{2})-N$", name)
ap_match(naming_prefix, name) ==
    LET head == naming_prefix \o sAP
        n == Len(head)
    IN /\ at_dollar(name, n + ApDigits + Len(sN))
       /\ startswith(name, head)
       /\ \A i \in 1..ApDigits : name[n + i] \in AsciiDigit
       /\ SubSeq(name, n + ApDigits + 1, n + ApDigits + Len(sN)) = sN

\* a slip: only the last digit of the group is read
ap_group_last_digit(naming_prefix, name) ==
    digit_value(name[Len(naming_prefix \o sAP) + ApDigits])

\* int(match.group(1))
ap_group(naming_prefix, name) ==
    LET n == Len(naming_prefix \o sAP)
    IN 10 * digit_value(name[n + 1]) + digit_value(name[n + 2])

SetMax(S) == CHOOSE m \in S : \A x \in S : x <= m

\* The loop over devices (lines 122-134), from the device at position k.
\* raised: re.match on a None name, or .strip() on a None address, raised.
RECURSIVE scan_devices(_, _, _, _, _)
scan_devices(devices, k, naming_prefix, existing_nums, found_address) ==
    IF k > Len(devices)
    THEN [raised |-> FALSE, existing_nums |-> existing_nums,
          found_address |-> found_address]
    ELSE
      LET d == devices[k]
          name == get(d, "name", <<>>)
      IN IF name = None
         THEN [raised |-> TRUE, existing_nums |-> existing_nums,
               found_address |-> found_address]
         ELSE
           LET nums == IF ap_match(naming_prefix, name)
                       THEN existing_nums \cup {ap_group(naming_prefix, name)}
                       ELSE existing_nums
           IN IF ~Falsy(found_address)
              THEN scan_devices(devices, k + 1, naming_prefix, nums, found_address)
              ELSE IF get(d, "address", <<>>) = None
              THEN [raised |-> TRUE, existing_nums |-> nums,
                    found_address |-> found_address]
              ELSE
                LET addr == strip(get(d, "address", <<>>), Whitespace)
                IN scan_devices(devices, k + 1, naming_prefix, nums,
                        IF addr # <<>> /\ lower(addr) # sNone
                        THEN addr ELSE found_address)

\* a slip: the number issued is not written back
store_usage_forgotten(usage_cache, network_id, next_num) == usage_cache

\* line 145: usage_cache[network_id] = next_num
store_usage(usage_cache, network_id, next_num) ==
    put(usage_cache, network_id, next_num)

\* get_next_ap_number. answer is what dashboard.networks.getNetworkDevices
\* does if it is called: it raises (answer.fault) or returns answer.devices.
\* The result carries the returned pair, the two caches as the call leaves
\* them, whether the remote read was made, whether it raised, and whether
\* the try block ended in the except clause (the read or the scan raised).
get_next_ap_number(network_id, naming_prefix, usage_cache, address_cache, answer) ==
    LET start_num0 == get(usage_cache, network_id, 0)
        found_address0 == get(address_cache, network_id, <<>>)
        scan == scan_devices(answer.devices, 1, naming_prefix, {}, found_address0)
        read_ok == start_num0 = 0 /\ ~answer.fault /\ ~scan.raised
        start_num ==
            IF start_num0 # 0 THEN start_num0
            ELSE IF read_ok /\ scan.existing_nums # {}
            THEN SetMax(scan.existing_nums)
            ELSE 0
        found_address ==
            IF start_num0 # 0 \/ answer.fault THEN found_address0
            ELSE scan.found_address
        next_num == start_num + 1
    IN [next_num |-> next_num,
        found_address |-> found_address,
        usage_cache |-> store_usage(usage_cache, network_id, next_num),
        address_cache |-> IF read_ok
                          THEN put(address_cache, network_id, found_address)
                          ELSE address_cache,
        read |-> start_num0 = 0,
        api_fault |-> start_num0 = 0 /\ answer.fault,
        fault |-> start_num0 = 0 /\ (answer.fault \/ scan.raised)]

----------------------------------------------------------------------------
(* get_dashboard_data *)

sConnectivity == <<"c", "o", "n", "n", "e", "c", "t", "i", "v", "i", "t", "y">>
sDiagnostic == <<"d", "i", "a", "g", "n", "o", "s", "t", "i", "c">>

\* a slip: any tag of a device is taken for the diagnostic tag
scan_tags_any_tag(tags, net_id, m) ==
    IF tags = <<>> THEN m
    ELSE [m EXCEPT !.diag = put(m.diag, net_id, tags[Len(tags)])]

\* The loop over one device's tags (lines 66-71): m is the pair of
\* network_connectivity_map and network_diagnostic_map.
RECURSIVE scan_tags(_, _, _)
scan_tags(tags, net_id, m) ==
    IF tags = <<>> THEN m
    ELSE LET t == Head(tags)
             t_lower == lower(t)
         IN scan_tags(Tail(tags), net_id,
                IF t_lower = sConnectivity
                THEN [m EXCEPT !.conn = put(m.conn, net_id, t)]
                ELSE IF t_lower = sDiagnostic
                THEN [m EXCEPT !.diag = put(m.diag, net_id, t)]
                ELSE m)

\* The loop over one organization's inventory (lines 54-71).
RECURSIVE scan_inventory(_, _, _)
scan_inventory(inventory, org, acc) ==
    IF inventory = <<>> THEN acc
    ELSE
      LET dev == Head(inventory)
          serial == dev.serial
          net_id == get(dev, "networkId", None)
          tags == get(dev, "tags", <<>>)
          entry == [orgId |-> org.id, orgName |-> org.name, networkId |-> net_id]
          m == IF ~Falsy(net_id)
               THEN scan_tags(tags, net_id, [conn |-> acc.network_connectivity_map,
                                             diag |-> acc.network_diagnostic_map])
               ELSE [conn |-> acc.network_connectivity_map,
                     diag |-> acc.network_diagnostic_map]
      IN scan_inventory(Tail(inventory), org,
             [acc EXCEPT !.inventory_map = put(acc.inventory_map, serial, entry),
                         !.network_connectivity_map = m.conn,
                         !.network_diagnostic_map = m.diag])

\* lines 74-80
org_networks(org) ==
    [i \in 1..Len(org.networks) |->
        [orgId |-> org.id, orgName |-> org.name,
         netId |-> org.networks[i].id, netName |-> org.networks[i].name]]

\* The loop over organizations (lines 48-80).
RECURSIVE scan_organizations(_, _)
scan_organizations(organizations, acc) ==
    IF organizations = <<>> THEN acc
    ELSE LET org == Head(organizations)
             a == scan_inventory(org.inventory, org, acc)
         IN scan_organizations(Tail(organizations),
                [a EXCEPT !.network_list = a.network_list \o org_networks(org)])

get_dashboard_data(directory) ==
    scan_organizations(directory.organizations,
        [inventory_map |-> EmptyDict, network_list |-> <<>>,
         network_connectivity_map |-> EmptyDict,
         network_diagnostic_map |-> EmptyDict])

----------------------------------------------------------------------------
(* main: one iteration of the loop over df_input (lines 181-281) *)

sGood == <<"g", "o", "o", "d">>
sBad == <<"b", "a", "d">>
sTrue == <<"t", "r", "u", "e">>
sFalse == <<"f", "a", "l", "s", "e">>
sYes == <<"y", "e", "s">>
sNo == <<"n", "o">>
sUnknown == <<"U", "n", "k", "n", "o", "w", "n">>
Quote == {"\""}

\* a slip: '>' for '>=' at line 254
NameCeilingOffByOne == 50 + 1

NameCeiling == 50

\* a slip: 100 for 99 at line 257
MaxProgressiveOffByOne == 99 + 1

MaxProgressive == 99

\* str(n) for n >= 0
RECURSIVE str_int(_)
str_int(n) ==
    IF n < 10 THEN <<DigitChars[n + 1]>>
    ELSE str_int(n \div 10) \o <<DigitChars[(n % 10) + 1]>>

\* str.zfill(width)
RECURSIVE zfill(_, _)
zfill(s, width) == IF Len(s) >= width THEN s ELSE zfill(<<"0">> \o s, width)

\* f"{ap_prefix}-AP{str(prog_num).zfill(2)}-N"
compose_ap_name(ap_prefix, prog_num) ==
    ap_prefix \o sAP \o zfill(str_int(prog_num), ApDigits) \o sN

\* a slip: the serial keeps its quote characters
new_res_unstripped(row, line_num) ==
    [line |-> line_num,
     Status |-> sBad,
     AlreadyAdded |-> sFalse,
     ShipmentDate |-> row.date,
     InputNetworkName |-> strip(row.net, Quote),
     SerialNumber |-> row.serial,
     OrgID |-> <<>>, OrgName |-> <<>>, NetworkID |-> <<>>,
     FullNetworkName |-> <<>>,
     Connectivity |-> sNo, ConnectivityTag |-> <<>>,
     DiagnosticTag |-> <<>>,
     Address |-> <<>>,
     APName |-> <<>>, Messages |-> <<>>]

\* res as line 187 builds it. line is the row's line_num, which the code
\* writes to the log and not to res: it is kept to tell the rows apart.
new_res(row, line_num) ==
    [line |-> line_num,
     Status |-> sBad,
     AlreadyAdded |-> sFalse,
     ShipmentDate |-> row.date,
     InputNetworkName |-> strip(row.net, Quote),
     SerialNumber |-> strip(row.serial, Quote),
     OrgID |-> <<>>, OrgName |-> <<>>, NetworkID |-> <<>>,
     FullNetworkName |-> <<>>,
     Connectivity |-> sNo, ConnectivityTag |-> <<>>,
     DiagnosticTag |-> <<>>,
     Address |-> <<>>,
     APName |-> <<>>, Messages |-> <<>>]

\* next((n for n in network_list if n['netId'] == net_id), None)
net_info_name(network_list, net_id) ==
    LET hits == SelectSeq(network_list, LAMBDA n : n.netId = net_id)
    IN IF hits = <<>> THEN sUnknown ELSE hits[1].netName

\* a slip: the record of a device in no network is appended to no list
inventory_branch_dropped(res, inv_data, network_list) ==
    IF ~Falsy(inv_data.networkId)
    THEN [list |-> "ignored",
          res |-> [res EXCEPT !.AlreadyAdded = sTrue, !.Status = sGood,
                              !.NetworkID = inv_data.networkId]]
    ELSE [list |-> "none", res |-> res]

\* lines 201-217: the serial is in inventory_map
inventory_branch(res, inv_data, network_list) ==
    LET r == [res EXCEPT !.AlreadyAdded = sTrue,
                         !.OrgID = inv_data.orgId,
                         !.OrgName = inv_data.orgName]
    IN IF ~Falsy(inv_data.networkId)
       THEN [list |-> "ignored",
             res |-> [r EXCEPT !.Status = sGood,
                               !.NetworkID = inv_data.networkId,
                               !.FullNetworkName =
                                   net_info_name(network_list, inv_data.networkId),
                               !.Messages = <<"device already successfully added">>]]
       ELSE [list |-> "error",
             res |-> [r EXCEPT !.Messages =
                          <<"serial in inventory but not assigned to a network.">>]]

\* a slip: the number is tested before the length of the name
name_branch_number_first(res, match, ap_prefix, diag_tag, conn_tag, prog_num, net_address) ==
    LET ap_name == compose_ap_name(ap_prefix, prog_num)
    IN IF prog_num > MaxProgressive
       THEN [list |-> "error", ap_name |-> ap_name,
             res |-> [res EXCEPT !.Messages = <<"Progressive number exceeds 99">>]]
       ELSE IF Len(ap_name) >= NameCeiling
       THEN [list |-> "error", ap_name |-> ap_name,
             res |-> [res EXCEPT !.Messages = <<"AP Name too long", Len(ap_name)>>]]
       ELSE [list |-> "validated", ap_name |-> ap_name,
             res |-> [res EXCEPT !.Status = sGood,
                                 !.OrgID = match.orgId,
                                 !.OrgName = match.orgName,
                                 !.NetworkID = match.netId,
                                 !.FullNetworkName = match.netName,
                                 !.APName = ap_name,
                                 !.DiagnosticTag = diag_tag,
                                 !.Address = net_address,
                                 !.Connectivity =
                                     IF ~Falsy(conn_tag) THEN sYes ELSE sNo,
                                 !.ConnectivityTag =
                                     IF ~Falsy(conn_tag) THEN conn_tag ELSE <<>>]]

\* lines 252-277: the name, the two limits, the validated record
name_branch(res, match, ap_prefix, diag_tag, conn_tag, prog_num, net_address) ==
    LET ap_name == compose_ap_name(ap_prefix, prog_num)
    IN IF Len(ap_name) >= NameCeiling
       THEN [list |-> "error", ap_name |-> ap_name,
             res |-> [res EXCEPT !.Messages = <<"AP Name too long", Len(ap_name)>>]]
       ELSE IF prog_num > MaxProgressive
       THEN [list |-> "error", ap_name |-> ap_name,
             res |-> [res EXCEPT !.Messages = <<"Progressive number exceeds 99">>]]
       ELSE [list |-> "validated", ap_name |-> ap_name,
             res |-> [res EXCEPT !.Status = sGood,
                                 !.OrgID = match.orgId,
                                 !.OrgName = match.orgName,
                                 !.NetworkID = match.netId,
                                 !.FullNetworkName = match.netName,
                                 !.APName = ap_name,
                                 !.DiagnosticTag = diag_tag,
                                 !.Address = net_address,
                                 !.Connectivity =
                                     IF ~Falsy(conn_tag) THEN sYes ELSE sNo,
                                 !.ConnectivityTag =
                                     IF ~Falsy(conn_tag) THEN conn_tag ELSE <<>>]]

\* The body of the loop for one row. d is what get_dashboard_data returned;
\* if this row calls getNetworkDevices, the call raises (remote_answer.fault)
\* or returns the devices of the network asked for.
\* The result: the list the record is appended to, the record, the two
\* caches after the row, and the get_next_ap_number call if there was one
\* (what it was given, what it returned, the name composed from it).
row_body(row, line_num, d, usage_cache, address_cache, remote_answer) ==
    LET res == new_res(row, line_num)
        csv_net_raw == res.InputNetworkName
        csv_serial == res.SerialNumber
        keep == [usage_cache |-> usage_cache, address_cache |-> address_cache,
                 call |-> <<>>]
    IN IF csv_serial \in DOMAIN d.inventory_map
       THEN inventory_branch(res, d.inventory_map[csv_serial], d.network_list)
                @@ keep
       ELSE
         LET matches == find_network_match(csv_net_raw, d.network_list)
         IN IF Len(matches) # 1
            THEN [list |-> "error",
                  res |-> [res EXCEPT !.Messages =
                              IF Len(matches) > 1
                              THEN <<"potential network name overlap">>
                              ELSE <<"network not found">>]] @@ keep
            ELSE
              LET match == matches[1]
                  net_id == match.netId
                  net_name == match.netName
                  v == validate_and_extract_prefix(net_name)
                  ap_prefix == v[1]
                  error_msg == v[2]
                  diag_tag == get(d.network_diagnostic_map, net_id, None)
                  answer == [fault |-> remote_answer.fault,
                             devices |-> remote_answer.devices[net_id]]
              IN IF Falsy(ap_prefix)
                 THEN [list |-> "error",
                       res |-> [res EXCEPT !.Messages = error_msg,
                                           !.FullNetworkName = net_name]] @@ keep
                 ELSE IF Falsy(diag_tag)
                 THEN [list |-> "error",
                       res |-> [res EXCEPT
                                  !.Messages = <<"Network missing mandatory 'diagnostic' tag">>,
                                  !.FullNetworkName = net_name]] @@ keep
                 ELSE
                   LET a == get_next_ap_number(net_id, ap_prefix, usage_cache,
                                               address_cache, answer)
                       n == name_branch(res, match, ap_prefix, diag_tag,
                                  get(d.network_connectivity_map, net_id, None),
                                  a.next_num, a.found_address)
                   IN [list |-> n.list, res |-> n.res,
                       usage_cache |-> a.usage_cache,
                       address_cache |-> a.address_cache,
                       call |-> <<[line |-> line_num, net |-> net_id,
                                   prefix |-> ap_prefix,
                                   num |-> a.next_num,
                                   address |-> a.found_address,
                                   ap_name |-> n.ap_name,
                                   read |-> a.read,
                                   api_fault |-> a.api_fault,
                                   fault |-> a.fault]>>]

----------------------------------------------------------------------------
(* The remote directory and the manifests of the runs checked *)

MaxRows == 3

\* a partner id of n characters
LongPid(n) == [i \in 1..n |-> "x"]

idN1 == <<"N", "_", "1">>
idN2 == <<"N", "_", "2">>
idN3 == <<"N", "_", "3">>
idN4 == <<"N", "_", "4">>
idN5 == <<"N", "_", "5">>
idN6 == <<"N", "_", "6">>

\* two networks of one naming prefix; a name one short of the ceiling once
\* composed, and one at the ceiling; a bad region code; a network no device
\* of which carries the diagnostic tag
nameN1 == <<"U", "S", "-", "A", "B", "C", "-", "P", "1", "-", "A", "c", "m", "e">>
nameN2 == <<"U", "S", "-", "A", "B", "C", "-", "P", "1", "-", "B", "e", "t", "a", " ", "L", "t", "d">>
nameN3 == <<"I", "T", "-", "M", "I", "L", "-">> \o LongPid(35) \o <<"-", "L", "a", "b">>
nameN4 == <<"F", "R", "-", "P", "A", "R", "-">> \o LongPid(36) \o <<"-", "L", "a", "b">>
nameN5 == <<"U", "S", "-", "A", "B", "-", "P", "1", "-", "A", "c", "m", "e">>
nameN6 == <<"D", "E", "-", "B", "E", "R", "-", "P", "2", "-", "G", "a", "m", "m", "a">>

Org1 ==
    [id |-> <<"O", "1">>, name |-> <<"O", "r", "g", " ", "O", "n", "e">>,
     inventory |-> <<
        [serial |-> <<"S", "9">>, networkId |-> idN1,
         tags |-> <<<<"D", "i", "a", "g", "n", "o", "s", "t", "i", "c">>, <<"c", "o", "n", "n", "e", "c", "t", "i", "v", "i", "t", "y">>>>],
        [serial |-> <<"S", "7">>, networkId |-> idN2,
         tags |-> <<<<"N", "E", "W", "-", "A", "P">>, <<"d", "i", "a", "g", "n", "o", "s", "t", "i", "c">>>>],
        [serial |-> <<"S", "6">>, networkId |-> idN3, tags |-> <<<<"D", "I", "A", "G", "N", "O", "S", "T", "I", "C">>>>],
        [serial |-> <<"S", "5">>, networkId |-> idN4, tags |-> <<<<"d", "i", "a", "g", "n", "o", "s", "t", "i", "c">>>>],
        [serial |-> <<"S", "8">>, networkId |-> None] >>,
     networks |-> <<[id |-> idN1, name |-> nameN1], [id |-> idN2, name |-> nameN2],
                    [id |-> idN3, name |-> nameN3], [id |-> idN4, name |-> nameN4],
                    [id |-> idN5, name |-> nameN5]>>]

Org2 ==
    [id |-> <<"O", "2">>, name |-> <<"O", "r", "g", " ", "T", "w", "o">>,
     inventory |-> <<
        [serial |-> <<"S", "4">>, networkId |-> idN6, tags |-> <<<<"C", "o", "n", "n", "e", "c", "t", "i", "v", "i", "t", "y">>>>],
        [serial |-> <<"S", "0">>, networkId |-> <<>>, tags |-> <<<<"d", "i", "a", "g", "n", "o", "s", "t", "i", "c">>>>],
        [serial |-> <<"S", "1">>] >>,
     networks |-> <<[id |-> idN6, name |-> nameN6]>>]

ap99N1 == <<"U", "S", "-", "A", "B", "C", "-", "P", "1", "-", "A", "P", "9", "9", "-", "N">>
ap05N1 == <<"U", "S", "-", "A", "B", "C", "-", "P", "1", "-", "A", "P", "0", "5", "-", "N">>
ap7N1 == <<"U", "S", "-", "A", "B", "C", "-", "P", "1", "-", "A", "P", "7", "-", "N">>
ap02N2 == <<"U", "S", "-", "A", "B", "C", "-", "P", "1", "-", "A", "P", "0", "2", "-", "N">>
ap98N3 == <<"I", "T", "-", "M", "I", "L", "-">> \o LongPid(35) \o <<"-", "A", "P", "9", "8", "-", "N">>

NoDevices == [n \in {idN1, idN2, idN3, idN4, idN5, idN6} |-> <<>>]

\* getNetworkDevices per network id, three directories
DevicesA ==
    [NoDevices EXCEPT
        ![idN1] = <<[name |-> ap99N1, address |-> <<"V", "i", "a", " ", "R", "o", "m", "a", " ", "1">>]>>,
        ![idN3] = <<[name |-> ap98N3]>>]

DevicesB ==
    [NoDevices EXCEPT
        ![idN1] = <<[name |-> ap05N1, address |-> <<" ", "N", "o", "n", "e", " ">>],
                    [address |-> <<"1", " ", "M", "a", "i", "n", " ", "S", "t">>],
                    [name |-> ap7N1, address |-> <<" ", "2", " ", "S", "i", "d", "e", " ", "S", "t", " ">>]>>,
        ![idN2] = <<[name |-> ap02N2], [name |-> ap05N1]>>]

DevicesC ==
    [NoDevices EXCEPT
        ![idN1] = <<[name |-> ap05N1, address |-> <<"1", " ", "M", "a", "i", "n", " ", "S", "t">>],
                    [name |-> None]>>,
        ![idN2] = <<[address |-> None]>>]

Remotes ==
    {[organizations |-> <<Org1, Org2>>, devices |-> dv] :
        dv \in {DevicesA, DevicesB, DevicesC}}

Row(net, serial) == [date |-> <<"2", "0", "2", "4", "-", "0", "5", "-", "0", "1">>, net |-> net, serial |-> serial]

RowPool ==
    {Row(<<"\"", "u", "s", "-", "a", "b", "c", "-", "p", "1", "-", "a", "c", "m", "e", "\"">>, <<"A", "1">>),        \* N1, by its name in another case, quoted
     Row(<<"U", "S", "-", "A", "B", "C", "-", "P", "1", "-", "B">>, <<"A", "2">>),        \* N2, by the start of its name
     Row(<<"U", "S", "-", "A", "B", "C", "-", "P", "1">>, <<"A", "3">>),        \* N1 and N2 both start with it
     Row(<<"U", "S", "-", "A", "B", "C", "-", "P", "1", "-", "B">>, <<"\"", "S", "9", "\"">>),  \* already in N1; the serial is quoted
     Row(<<"U", "S", "-", "A", "B", "C", "-", "P", "1", "-", "B">>, <<"S", "8">>),        \* in the inventory, in no network
     Row(<<"i", "t", "-", "m", "i", "l">>, <<"A", "4">>),        \* N3
     Row(<<"F", "R", "-", "P", "A", "R">>, <<"A", "5">>),        \* N4
     Row(<<"U", "S", "-", "A", "B", "-">>, <<"A", "6">>),        \* N5
     Row(<<"D", "E", "-", "B", "E", "R", "-", "P", "2", "-", "G", "a", "m", "m", "a">>, <<"A", "7">>),        \* N6
     Row(<<"N", "o", "w", "h", "e", "r", "e">>, <<"A", "8">>)}        \* no network

RECURSIVE SeqsUpTo(_, _)
SeqsUpTo(S, n) ==
    IF n = 0 THEN {<<>>}
    ELSE LET shorter == SeqsUpTo(S, n - 1)
         IN shorter \cup {Append(q, x) : q \in shorter, x \in S}

Manifests == SeqsUpTo(RowPool, MaxRows)

----------------------------------------------------------------------------
(* The validation run *)

FnIdle == <<>>

ClaimIdle ==
    /\ cpc = "idle"
    /\ input_file = <<>>
    /\ df = <<>>
    /\ critical_error = FALSE
    /\ grouped = <<>>
    /\ group = <<>>
    /\ claimed_successfully = <<>>
    /\ failed_serials = <<>>
    /\ claim_calls = <<>>
    /\ update_calls = <<>>
    /\ renamed_to = "INPUT_FILE"

ValStart(m, r) ==
    /\ pc = "start"
    /\ run = 1
    /\ manifest = m
    /\ remote = r
    /\ dash = <<>>
    /\ idx = 0
    /\ network_usage_counter = EmptyDict
    /\ network_address_cache = EmptyDict
    /\ ignored_list = <<>>
    /\ error_list = <<>>
    /\ validated_list = <<>>
    /\ issued = <<>>
    /\ reads = <<>>
    /\ prev_run = <<>>

Init ==
    /\ fn_in = FnIdle
    /\ fn_out = FnIdle
    /\ ClaimIdle
    /\ \E m \in Manifests, r \in Remotes : ValStart(m, r)

\* line 170, get_dashboard_data returns
GetDashboardData ==
    /\ pc = "start"
    /\ dash' = get_dashboard_data(remote)
    /\ pc' = "rows"
    /\ UNCHANGED <<run, manifest, remote, idx, network_usage_counter,
                   network_address_cache, ignored_list, error_list,
                   validated_list, issued, reads, prev_run, fn_vars, claim_vars>>

\* lines 83-85: meraki.APIError, sys.exit(1)
GetDashboardDataError ==
    /\ pc = "start"
    /\ pc' = "exit"
    /\ UNCHANGED <<run, manifest, remote, dash, idx, network_usage_counter,
                   network_address_cache, ignored_list, error_list,
                   validated_list, issued, reads, prev_run, fn_vars, claim_vars>>

\* lines 181-281, one row
ProcessRow ==
    /\ pc = "rows"
    /\ idx < Len(manifest)
    /\ \E fault \in BOOLEAN :
       \E b \in {row_body(manifest[idx + 1], idx + 1, dash, network_usage_counter,
                          network_address_cache,
                          [fault |-> fault, devices |-> remote.devices])} :
            /\ network_usage_counter' = b.usage_cache
            /\ network_address_cache' = b.address_cache
            /\ ignored_list' = IF b.list = "ignored"
                               THEN Append(ignored_list, b.res) ELSE ignored_list
            /\ error_list' = IF b.list = "error"
                             THEN Append(error_list, b.res) ELSE error_list
            /\ validated_list' = IF b.list = "validated"
                                 THEN Append(validated_list, b.res)
                                 ELSE validated_list
            /\ issued' = issued \o b.call
            /\ reads' = reads \o
                   IF b.call # <<>> /\ b.call[1].read
                   THEN <<[net |-> b.call[1].net, fault |-> b.call[1].api_fault]>>
                   ELSE <<>>
    /\ idx' = idx + 1
    /\ UNCHANGED <<pc, run, manifest, remote, dash, prev_run, fn_vars, claim_vars>>

\* lines 283-302: the loop is over, the log and the three files are written
WriteOutput ==
    /\ pc = "rows"
    /\ idx = Len(manifest)
    /\ pc' = "done"
    /\ UNCHANGED <<run, manifest, remote, dash, idx, network_usage_counter,
                   network_address_cache, ignored_list, error_list,
                   validated_list, issued, reads, prev_run, fn_vars, claim_vars>>

\* a slip: the caches outlive the run
stale_caches == [usage |-> network_usage_counter, address |-> network_address_cache]

\* lines 173-174: the two caches of a run
fresh_caches == [usage |-> EmptyDict, address |-> EmptyDict]

\* The program is started again on the same manifest and the same
\* directory: the caches and the lists of lines 173-176 are new.
Rerun ==
    /\ pc = "done"
    /\ run = 1
    /\ run' = 2
    /\ prev_run' = <<[ignored_list |-> ignored_list, error_list |-> error_list,
                      validated_list |-> validated_list, reads |-> reads]>>
    /\ pc' = "start"
    /\ dash' = <<>>
    /\ idx' = 0
    /\ network_usage_counter' = fresh_caches.usage
    /\ network_address_cache' = fresh_caches.address
    /\ ignored_list' = <<>>
    /\ error_list' = <<>>
    /\ validated_list' = <<>>
    /\ issued' = <<>>
    /\ reads' = <<>>
    /\ UNCHANGED <<manifest, remote, fn_vars, claim_vars>>

Next ==
    \/ GetDashboardData
    \/ GetDashboardDataError
    \/ ProcessRow
    \/ WriteOutput

\* one validation run
Spec == Init /\ [][Next]_vars

MaxRerunRows == 2

InitRerun ==
    /\ fn_in = FnIdle
    /\ fn_out = FnIdle
    /\ ClaimIdle
    /\ \E m \in SeqsUpTo(RowPool, MaxRerunRows), r \in Remotes : ValStart(m, r)

NextRerun ==
    \/ GetDashboardData
    \/ GetDashboardDataError
    \/ ProcessRow
    \/ WriteOutput
    \/ Rerun

\* a validation run and a second one on the same input
SpecRerun == InitRerun /\ [][NextRerun]_vars

----------------------------------------------------------------------------
(* Calls of find_network_match and of validate_and_extract_prefix *)

ValIdle ==
    /\ pc = "idle"
    /\ run = 0
    /\ manifest = <<>>
    /\ remote = <<>>
    /\ dash = <<>>
    /\ idx = 0
    /\ network_usage_counter = EmptyDict
    /\ network_address_cache = EmptyDict
    /\ ignored_list = <<>>
    /\ error_list = <<>>
    /\ validated_list = <<>>
    /\ issued = <<>>
    /\ reads = <<>>
    /\ prev_run = <<>>

NotCalled == [called |-> FALSE]

MaxNets == 3

Net(org, id, name) == [orgId |-> org, orgName |-> org, netId |-> id, netName |-> name]

\* a name, the same name in another case in another organization, two
\* names that start with it, one that does not
MatchNetPool ==
    {Net(<<"O", "1">>, idN1, <<"S", "t", "o", "r", "e", "1", "2">>),
     Net(<<"O", "2">>, idN2, <<"S", "T", "O", "R", "E", "1", "2">>),
     Net(<<"O", "1">>, idN3, <<"S", "t", "o", "r", "e", "1", "2", "-", "E", "a", "s", "t">>),
     Net(<<"O", "1">>, idN4, <<"S", "t", "o", "r", "e", "1", "2", "-", "W", "e", "s", "t">>),
     Net(<<"O", "1">>, idN5, <<"D", "e", "p", "o", "t">>)}

MatchCandidates ==
    {<<"S", "t", "o", "r", "e", "1", "2">>, <<"s", "t", "o", "r", "e", "1", "2", "-", "e">>, <<"s", "T", "O", "R">>, <<"S", "t", "o", "r", "e", "1", "2", "-", "E", "a", "s", "t">>, <<"S", "t", "o", "r", "e", "1", "3">>, <<>>}

\* the network lists: no network twice
NetworkLists ==
    {q \in SeqsUpTo(MatchNetPool, MaxNets) :
        \A i, j \in 1..Len(q) : i # j => q[i] # q[j]}

InitMatch ==
    /\ ValIdle
    /\ ClaimIdle
    /\ fn_in \in [csv_name : MatchCandidates, network_list : NetworkLists]
    /\ fn_out = NotCalled

CallFindNetworkMatch ==
    /\ ~fn_out.called
    /\ fn_out' = [called |-> TRUE,
                  result |-> find_network_match(fn_in.csv_name, fn_in.network_list)]
    /\ UNCHANGED <<fn_in, val_vars, claim_vars>>

NextMatch == CallFindNetworkMatch

SpecMatch == InitMatch /\ [][NextMatch]_vars

MaxRest == 2

\* components: none holds the delimiter
CcPool == {<<"U", "S">>, <<"u", "S">>, <<"U">>, <<"U", "S", "A">>, <<"U", "1">>, <<"U", "S", "\n">>, <<>>}
RegPool == {<<"A", "B", "C">>, <<"a", "1", "C">>, <<"A", "B">>, <<"A", "B", "C", "D">>, <<"A", " ", "C">>, <<"A", "B", "C", "\n">>}
PidPool == {<<"P", "1">>, <<"p">>, <<>>, <<"P", "_", "1">>, <<"P", "1", "\n">>}
RestPool == {<<"A", "c", "m", "e">>, <<>>, <<"A", "c", "m", "e", " ", "I", "n", "c", ".">>}

\* the component lists of the names: one to three components, or
\* country, region, partner and up to MaxRest more
PartLists ==
    {<<cc>> : cc \in CcPool}
    \cup {<<cc, reg>> : cc \in CcPool, reg \in RegPool}
    \cup {<<cc, reg, pid>> \o rest :
            cc \in CcPool, reg \in RegPool, pid \in PidPool,
            rest \in SeqsUpTo(RestPool, MaxRest)}

InitPrefix ==
    /\ ValIdle
    /\ ClaimIdle
    /\ \E parts \in PartLists : fn_in = [parts |-> parts, full_net_name |-> join(parts)]
    /\ fn_out = NotCalled

CallValidateAndExtractPrefix ==
    /\ ~fn_out.called
    /\ fn_out' = [called |-> TRUE,
                  result |-> validate_and_extract_prefix(fn_in.full_net_name)]
    /\ UNCHANGED <<fn_in, val_vars, claim_vars>>

NextPrefix == CallValidateAndExtractPrefix

SpecPrefix == InitPrefix /\ [][NextPrefix]_vars

----------------------------------------------------------------------------
(* The claim run: main of 2_claim_devices.py *)

MaxBatch == 3

sNewAp == <<"N", "E", "W", "-", "A", "P">>
sNan == <<"n", "a", "n">>

\* line 64: x.str.strip() on the text columns
strip_row(r) == [f \in DOMAIN r |-> strip(r[f], Whitespace)]

\* lines 63-65
read_input(rows) ==
    [i \in 1..Len(rows) |-> strip_row(rows[i]) @@ [line_number |-> i + 1]]

\* a slip: the duplicate check is left out
duplicate_mask_none(frame) == [i \in 1..Len(frame) |-> FALSE]

\* line 68: df.duplicated(subset=['Serial Number'], keep=False)
duplicate_mask(frame) ==
    [i \in 1..Len(frame) |->
        \E j \in 1..Len(frame) :
            j # i /\ frame[j].SerialNumber = frame[i].SerialNumber]

\* a slip: the already-added flag is not looked at
invalid_mask_status_only(frame) ==
    [i \in 1..Len(frame) |-> lower(frame[i].Status) # sGood]

\* lines 76-77
invalid_mask(frame) ==
    [i \in 1..Len(frame) |->
        \/ lower(frame[i].Status) # sGood
        \/ lower(frame[i].AlreadyAdded) # sFalse]

mask_any(mask) == \E i \in 1..Len(mask) : mask[i]

\* the key of line 92
group_key(r) ==
    <<r.NetworkID, r.FullNetworkName, r.OrgID, r.OrgName>>

\* an empty cell is read as NaN
is_nan(cell) == cell = <<>>

\* the keys in the order groupby sorts them
KeyOrder ==
    <<<<idN1, nameN1, <<"O", "1">>, <<"O", "r", "g", " ", "O", "n", "e">>>>, <<idN2, nameN2, <<"O", "1">>, <<"O", "r", "g", " ", "O", "n", "e">>>>>>

\* line 92: df.groupby([...]); a row with NaN in a key column is in no group
groupby(frame) ==
    LET in_groups == SelectSeq(frame,
                        LAMBDA r : \A i \in 1..4 : ~is_nan(group_key(r)[i]))
        keys == {group_key(in_groups[i]) : i \in 1..Len(in_groups)}
        present == SelectSeq(KeyOrder, LAMBDA k : k \in keys)
    IN [i \in 1..Len(present) |->
           [key |-> present[i],
            rows |-> SelectSeq(in_groups, LAMBDA r : group_key(r) = present[i])]]

serials_of(rows) == [i \in 1..Len(rows) |-> rows[i].SerialNumber]

\* df[df['Serial Number'] == s]['line_number'].values, as a sequence
line_numbers(frame, s) ==
    LET hits == SelectSeq(frame, LAMBDA r : r.SerialNumber = s)
    IN [i \in 1..Len(hits) |-> hits[i].line_number]

\* pd.notna(v) and str(v).lower() != 'nan' and str(v).strip() != ''
has_text(cell) ==
    ~is_nan(cell) /\ lower(cell) # sNan /\ strip(cell, Whitespace) # <<>>

\* lines 136-167: the parameters of updateDevice for a claimed serial
update_params(row, serial) ==
    LET diag == IF has_text(row.DiagnosticTag) THEN <<row.DiagnosticTag>> ELSE <<>>
        conn == IF lower(row.Connectivity) = sYes /\ has_text(row.ConnectivityTag)
                THEN <<row.ConnectivityTag>> ELSE <<>>
        base == [serial |-> serial, name |-> row.APName,
                 tags |-> <<sNewAp>> \o diag \o conn]
    IN IF has_text(row.Address)
       THEN base @@ [address |-> strip(row.Address, Whitespace),
                     moveMapMarker |-> TRUE]
       ELSE base

\* the sequences of elements of q, in the order of q
RECURSIVE SubSeqs(_)
SubSeqs(q) ==
    IF q = <<>> THEN {<<>>}
    ELSE LET rest == SubSeqs(Tail(q))
         IN rest \cup {<<Head(q)>> \o t : t \in rest}

\* What claimNetworkDevices may do with the serials: raise, or return a
\* response that lists some of them as claimed and, for the others, no
\* error, an error that names the serial, or an error that names none.
ClaimResponses(serials) ==
    {[api_error |-> TRUE]}
    \cup {[api_error |-> FALSE, serials |-> c] : c \in SubSeqs(serials)}
    \cup {[api_error |-> FALSE, serials |-> c,
            errors |-> LET left == SelectSeq(serials, LAMBDA x : x \notin Range(c))
                       IN [i \in 1..Len(left) |->
                              IF named THEN [serial |-> left[i]]
                              ELSE [errors |-> <<"error">>]]] :
            c \in SubSeqs(serials) \ {serials}, named \in BOOLEAN}

ClaimRow(serial, status, added, net, name, org) ==
    [SerialNumber |-> serial, Status |-> status, AlreadyAdded |-> added,
     NetworkID |-> net, FullNetworkName |-> name,
     OrgID |-> <<"O", "1">>, OrgName |-> org,
     Connectivity |-> sYes, ConnectivityTag |-> sConnectivity,
     DiagnosticTag |-> sDiagnostic, Address |-> <<" ", "1", " ", "M", "a", "i", "n", " ", "S", "t">>,
     APName |-> <<"A", "P", "-">> \o serial]

\* rows of the validated file, and rows an editor changed
ClaimRowPool ==
    {ClaimRow(<<"Q", "1">>, sGood, sFalse, idN1, nameN1, <<"O", "r", "g", " ", "O", "n", "e">>),
     ClaimRow(<<"Q", "2">>, sGood, sFalse, idN2, nameN2, <<"O", "r", "g", " ", "O", "n", "e">>),
     ClaimRow(<<"Q", "1">>, sGood, sFalse, idN2, nameN2, <<"O", "r", "g", " ", "O", "n", "e">>),
     ClaimRow(<<"Q", "3">>, <<"G", "o", "o", "d", " ">>, <<"F", "a", "l", "s", "e">>, idN1, nameN1, <<"O", "r", "g", " ", "O", "n", "e">>),
     ClaimRow(<<"Q", "4">>, sBad, sFalse, idN1, nameN1, <<"O", "r", "g", " ", "O", "n", "e">>),
     ClaimRow(<<"Q", "5">>, sGood, sTrue, idN2, nameN2, <<"O", "r", "g", " ", "O", "n", "e">>),
     ClaimRow(<<"Q", "6">>, sGood, sFalse, idN1, nameN1, <<>>)}

InitClaim ==
    /\ fn_in = FnIdle
    /\ fn_out = FnIdle
    /\ ValIdle
    /\ cpc = "load"
    /\ input_file \in SeqsUpTo(ClaimRowPool, MaxBatch)
    /\ df = <<>>
    /\ critical_error = FALSE
    /\ grouped = <<>>
    /\ group = <<>>
    /\ claimed_successfully = <<>>
    /\ failed_serials = <<>>
    /\ claim_calls = <<>>
    /\ update_calls = <<>>
    /\ renamed_to = "INPUT_FILE"

\* lines 61-92: the file is read and checked; a failed check raises, and
\* line 186 catches
LoadAndCheck ==
    /\ cpc = "load"
    /\ LET frame == read_input(input_file)
           failed == mask_any(duplicate_mask(frame)) \/ mask_any(invalid_mask(frame))
       IN /\ df' = frame
          /\ critical_error' = failed
          /\ grouped' = IF failed THEN <<>> ELSE groupby(frame)
          /\ cpc' = IF failed THEN "rename" ELSE "groups"
    /\ UNCHANGED <<input_file, group, claimed_successfully, failed_serials,
                   claim_calls, update_calls, renamed_to, fn_vars, val_vars>>

\* lines 116-121 for the errors from position k: the lines appended to
\* failed_serials, and whether a look-up of the line number raised
RECURSIVE scan_errors(_, _, _, _)
scan_errors(frame, errors, k, failed) ==
    IF k > Len(errors) THEN [raised |-> FALSE, failed |-> failed]
    ELSE LET err_serial == get(errors[k], "serial", sUnknown)
             ln == line_numbers(frame, err_serial)
         IN IF ln = <<>>
            THEN [raised |-> TRUE, failed |-> failed]
            ELSE scan_errors(frame, errors, k + 1,
                             Append(failed, <<ln[1], err_serial>>))

\* lines 98-127: the next group is claimed; claim_calls keeps the request
\* and what the service answered
ClaimGroup ==
    /\ cpc = "groups"
    /\ grouped # <<>>
    /\ LET g == Head(grouped)
           net_id == g.key[1]
           serials_in_group == serials_of(g.rows)
       IN /\ grouped' = Tail(grouped)
          /\ \E response \in ClaimResponses(serials_in_group) :
             /\ claim_calls' = Append(claim_calls,
                                      [net_id |-> net_id,
                                       serials |-> serials_in_group,
                                       response |-> response])
             /\ IF response.api_error
                THEN /\ failed_serials' = failed_serials \o
                            [i \in 1..Len(serials_in_group) |->
                                <<line_numbers(df, serials_in_group[i])[1],
                                  serials_in_group[i]>>]
                     /\ UNCHANGED <<cpc, group, claimed_successfully, critical_error>>
                ELSE LET e == scan_errors(df, get(response, "errors", <<>>), 1,
                                          failed_serials)
                     IN /\ failed_serials' = e.failed
                        /\ critical_error' = e.raised
                        /\ group' = g.rows
                        /\ claimed_successfully' =
                               IF e.raised THEN <<>> ELSE response.serials
                        /\ cpc' = IF e.raised THEN "rename"
                                  ELSE IF response.serials # <<>> THEN "update"
                                  ELSE "groups"
    /\ UNCHANGED <<input_file, df, update_calls, renamed_to, fn_vars, val_vars>>

\* lines 132-182: the next claimed serial of the group is updated
UpdateDevice ==
    /\ cpc = "update"
    /\ LET serial == Head(claimed_successfully)
           row == SelectSeq(group, LAMBDA r : r.SerialNumber = serial)[1]
       IN /\ update_calls' = Append(update_calls, update_params(row, serial))
          /\ \E api_error \in BOOLEAN :
                failed_serials' = IF api_error
                                  THEN Append(failed_serials, <<row.line_number, serial>>)
                                  ELSE failed_serials
    /\ claimed_successfully' = Tail(claimed_successfully)
    /\ cpc' = IF Tail(claimed_successfully) = <<>> THEN "groups" ELSE "update"
    /\ UNCHANGED <<input_file, df, critical_error, grouped, group, claim_calls,
                   renamed_to, fn_vars, val_vars>>

\* a slip: the file is given the clean prefix whatever critical_error is
RenameInput_always_clean ==
    /\ cpc = "rename" \/ (cpc = "groups" /\ grouped = <<>>)
    /\ \E moved \in BOOLEAN :
          renamed_to' = IF ~moved THEN "INPUT_FILE" ELSE "claimed_"
    /\ cpc' = "end"
    /\ UNCHANGED <<input_file, df, critical_error, grouped, group,
                   claimed_successfully, failed_serials, claim_calls,
                   update_calls, fn_vars, val_vars>>

\* lines 190-199: the input file is moved, or the move fails
RenameInput ==
    /\ cpc = "rename" \/ (cpc = "groups" /\ grouped = <<>>)
    /\ \E moved \in BOOLEAN :
          renamed_to' = IF ~moved THEN "INPUT_FILE"
                        ELSE IF critical_error THEN "error_claimed_"
                        ELSE "claimed_"
    /\ cpc' = "end"
    /\ UNCHANGED <<input_file, df, critical_error, grouped, group,
                   claimed_successfully, failed_serials, claim_calls,
                   update_calls, fn_vars, val_vars>>

NextClaim ==
    \/ LoadAndCheck
    \/ ClaimGroup
    \/ UpdateDevice
    \/ RenameInput

\* one claim run
SpecClaim == InitClaim /\ [][NextClaim]_vars

----------------------------------------------------------------------------
(* What the properties below speak of *)

\* equal but for the case of letters
CiEq(a, b) ==
    /\ Len(a) = Len(b)
    /\ \A i \in 1..Len(a) :
          \/ a[i] = b[i]
          \/ \E k \in 1..Len(UpperCase) : {a[i], b[i]} = {UpperCase[k], LowerCase[k]}

CiStarts(name, cand) ==
    Len(cand) <= Len(name) /\ CiEq(SubSeq(name, 1, Len(cand)), cand)

Indices(q) == 1..Len(q)

\* where the record of manifest row k went: (list, position)
Placements(k) ==
    {<<"ignored", i>> : i \in {j \in Indices(ignored_list) : ignored_list[j].line = k}}
    \cup {<<"error", i>> : i \in {j \in Indices(error_list) : error_list[j].line = k}}
    \cup {<<"validated", i>> : i \in {j \in Indices(validated_list) : validated_list[j].line = k}}

ListNamed(l) ==
    IF l = "ignored" THEN ignored_list
    ELSE IF l = "error" THEN error_list ELSE validated_list

RecordAt(p) == ListNamed(p[1])[p[2]]

\* the row's fields, quote characters stripped (spec section 6)
RowSerial(k) == strip(manifest[k].serial, Quote)
RowText(k) == strip(manifest[k].net, Quote)

\* the get_next_ap_number calls for network n, in call order
CallsOf(n) == SelectSeq(issued, LAMBDA c : c.net = n)

NetsCalled == {issued[i].net : i \in Indices(issued)}

\* the networks of the directory
DirNetworks ==
    UNION {{[org |-> o, net |-> o.networks[i]] : i \in Indices(o.networks)} :
              o \in Range(remote.organizations)}

\* the inventory devices of the directory
DirInventory == UNION {Range(o.inventory) : o \in Range(remote.organizations)}

\* <prefix>-AP<2-digit k>-N
TwoDigitName(prefix, k) ==
    prefix \o <<"-", "A", "P", DigitChars[(k \div 10) + 1], DigitChars[(k % 10) + 1],
                "-", "N">>

Processing == pc \in {"rows", "done"}

----------------------------------------------------------------------------
(* C1 *)

\* C1: every manifest row iterated has exactly one record, in exactly one of
\* the three lists, and when the run is done every row has been iterated.
C1_OneRecordPerRow ==
    /\ Len(ignored_list) + Len(error_list) + Len(validated_list) = idx
    /\ \A k \in 1..idx :
          /\ Cardinality(Placements(k)) = 1
          /\ \A p \in Placements(k) :
                /\ RecordAt(p).SerialNumber = RowSerial(k)
                /\ RecordAt(p).InputNetworkName = RowText(k)
    /\ \A l \in {"ignored", "error", "validated"} :
          \A i \in Indices(ListNamed(l)) : ListNamed(l)[i].line \in 1..idx
    /\ pc = "done" => idx = Len(manifest)

\* a run over a full manifest that filled all three lists
C1_Witness ==
    /\ pc = "done"
    /\ Len(manifest) >= 3
    /\ ignored_list # <<>>
    /\ error_list # <<>>
    /\ validated_list # <<>>

----------------------------------------------------------------------------
(* C2 *)

\* C2: per network id, each get_next_ap_number call returns the previous
\* call's number plus one, and no number is returned twice.
C2_NextIsPreviousPlusOne ==
    \A n \in NetsCalled :
        LET s == CallsOf(n)
        IN /\ \A k \in 1..(Len(s) - 1) : s[k + 1].num = s[k].num + 1
           /\ \A i, j \in Indices(s) : i # j => s[i].num # s[j].num

\* a row was given a number and then rejected, and a later row of the same
\* network got the next number
C2_Witness ==
    \E i, j \in Indices(issued) :
        /\ i < j
        /\ issued[i].net = issued[j].net
        /\ issued[j].num = issued[i].num + 1
        /\ \E e \in Indices(error_list) : error_list[e].line = issued[i].line


----------------------------------------------------------------------------
(* C3 *)

\* the numbers of the existing devices of network n named <prefix>-AP<NN>-N
ExistingNumbers(n, prefix) ==
    {k \in 0..99 :
        \E d \in Range(remote.devices[n]) :
            "name" \in DOMAIN d /\ d.name = TwoDigitName(prefix, k)}

\* where the numbering of network n starts: the greatest existing number if
\* the first call's read of the device list went through, else 0
StartOf(n) ==
    LET first == CallsOf(n)[1]
        nums == ExistingNumbers(n, first.prefix)
    IN IF ~first.fault /\ nums # {} THEN SetMax(nums) ELSE 0

\* C3 as claimed: the calls for a network return 1, 2, ..., N in row order.
C3_NumbersFromOne ==
    \A n \in NetsCalled :
        LET s == CallsOf(n)
        IN \A k \in Indices(s) : s[k].num = k

\* C3 as amended: the calls for a network return s+1, s+2, ..., s+N in row
\* order, s being the greatest number among the network's existing device
\* names of the pattern (0 if there is none, or if the read failed).
C3_NumbersFromStart ==
    \A n \in NetsCalled :
        LET s == CallsOf(n)
        IN /\ s[1].read
           /\ \A k \in Indices(s) : s[k].num = StartOf(n) + k
           /\ \A k \in 1..(Len(s) - 1) : s[k].line < s[k + 1].line /\ ~s[k + 1].read

\* a network with existing numbered devices got several numbers
C3_Witness ==
    \E n \in NetsCalled :
        /\ Len(CallsOf(n)) >= 2
        /\ StartOf(n) > 0
        /\ CallsOf(n)[2].num = StartOf(n) + 2

----------------------------------------------------------------------------
(* C4 *)

\* the networks the text resolves to: the one network of that name if
\* there is exactly one, else those whose name starts with the text
Resolved(text) ==
    LET exact == {x \in DirNetworks : CiEq(x.net.name, text)}
        partial == {x \in DirNetworks : CiStarts(x.net.name, text)}
    IN IF Cardinality(exact) = 1 THEN exact ELSE partial

\* CC-REG-PID-rest: two letters, three alphanumerics, alphanumerics
WellFormed(parts) ==
    /\ Len(parts) >= 4
    /\ Len(parts[1]) = 2 /\ Range(parts[1]) \subseteq AsciiLetter
    /\ Len(parts[2]) = 3 /\ Range(parts[2]) \subseteq AsciiAlnum
    /\ Len(parts[3]) >= 1 /\ Range(parts[3]) \subseteq AsciiAlnum

HasDiagnosticTag(net_id) ==
    \E dev \in DirInventory :
        /\ "networkId" \in DOMAIN dev
        /\ dev.networkId = net_id
        /\ "tags" \in DOMAIN dev
        /\ \E t \in Range(dev.tags) : CiEq(t, sDiagnostic)

\* C4: a record is in validated_list only if its serial is not in the
\* inventory, its text resolves to exactly one network, that network's name
\* is well formed and the network carries the diagnostic tag, its number is
\* at most 99 and its name is shorter than 50 characters.
C4_ValidatedOnlyIf ==
    \A i \in Indices(validated_list) :
        LET r == validated_list[i]
            k == r.line
        IN /\ k \in 1..idx
           /\ \A dev \in DirInventory : dev.serial # RowSerial(k)
           /\ Cardinality(Resolved(RowText(k))) = 1
           /\ \A x \in Resolved(RowText(k)) :
                /\ r.NetworkID = x.net.id
                /\ r.FullNetworkName = x.net.name
                /\ WellFormed(split(x.net.name))
                /\ HasDiagnosticTag(x.net.id)
           /\ \E c \in Range(issued) :
                c.line = k /\ c.num <= 99 /\ c.ap_name = r.APName
           /\ Len(r.APName) < 50
           /\ r.Status = sGood

\* a validated record whose name is one short of the limit and whose number
\* is the last one allowed
C4_Witness ==
    \E i \in Indices(validated_list) :
        /\ Len(validated_list[i].APName) = 49
        /\ \E c \in Range(issued) : c.line = validated_list[i].line /\ c.num = 99

----------------------------------------------------------------------------
(* C5 *)

Rejected(k) == \E i \in Indices(error_list) : error_list[i].line = k
Validated(k) == \E i \in Indices(validated_list) : validated_list[i].line = k

\* the rejection and acceptance part of C5, for the call c
C5_Limits(c) ==
    /\ Rejected(c.line) <=> (Len(c.ap_name) >= 50 \/ c.num > 99)
    /\ Validated(c.line) <=> ~(Len(c.ap_name) >= 50 \/ c.num > 99)
    /\ \A i \in Indices(validated_list) :
          validated_list[i].line = c.line => validated_list[i].APName = c.ap_name

\* C5 as claimed: the name composed for every row that reaches allocation
\* is <prefix>-AP<2-digit>-N, and the row is rejected exactly when the
\* name has 50 characters or more or the number is above 99.
C5_AlwaysTwoDigits ==
    \A c \in Range(issued) :
        /\ \E k \in 0..99 : c.ap_name = TwoDigitName(c.prefix, k)
        /\ C5_Limits(c)

\* the decimal digits of n, n >= 100
ThreeDigits(n) ==
    <<DigitChars[(n \div 100) + 1], DigitChars[((n \div 10) % 10) + 1],
      DigitChars[(n % 10) + 1]>>

\* C5 as amended: the name is <prefix>-AP<2-digit>-N for a number up to 99
\* and carries all the digits of a greater number; the row is rejected
\* exactly when the name has 50 characters or more or the number is above 99.
C5_TwoDigitsUpTo99 ==
    \A c \in Range(issued) :
        /\ c.num >= 1
        /\ c.num <= 99 => c.ap_name = TwoDigitName(c.prefix, c.num)
        /\ (c.num > 99 /\ c.num < 1000) =>
              c.ap_name = c.prefix \o <<"-", "A", "P">> \o ThreeDigits(c.num)
                              \o <<"-", "N">>
        /\ C5_Limits(c)

\* number 99 at length 49 validated, number 100 rejected, length 50 rejected
C5_Witness ==
    /\ \E c \in Range(issued) :
          c.num = 99 /\ Len(c.ap_name) = 49 /\ Validated(c.line)
    /\ \E c \in Range(issued) :
          c.num = 100 /\ Len(c.ap_name) < 50 /\ Rejected(c.line)
    /\ \E c \in Range(issued) :
          c.num < 99 /\ Len(c.ap_name) = 50 /\ Rejected(c.line)

----------------------------------------------------------------------------
(* C6 *)

\* the inventory holds the serial, in a network
InInventoryWithNetwork(serial) ==
    /\ serial \in DOMAIN dash.inventory_map
    /\ ~Falsy(dash.inventory_map[serial].networkId)

\* C6: the record of a row whose serial the inventory holds with a network
\* id is in ignored_list, marked already added, and in no other list.
C6_AlreadyAdded ==
    Processing =>
      \A k \in 1..idx :
        InInventoryWithNetwork(RowSerial(k)) =>
            /\ Placements(k) # {}
            /\ \A p \in Placements(k) :
                 /\ p[1] = "ignored"
                 /\ RecordAt(p).AlreadyAdded = sTrue
                 /\ RecordAt(p).NetworkID = dash.inventory_map[RowSerial(k)].networkId

\* the same inventoried serial in two rows, its text naming another network
C6_Witness ==
    /\ Processing
    /\ \E j, k \in 1..idx :
          /\ j < k
          /\ RowSerial(j) = RowSerial(k)
          /\ InInventoryWithNetwork(RowSerial(k))
          /\ Cardinality(Resolved(RowText(k))) = 1
          /\ \A x \in Resolved(RowText(k)) :
                x.net.id # dash.inventory_map[RowSerial(k)].networkId

----------------------------------------------------------------------------
(* C7 *)

\* the positions of the networks named as the candidate, but for case
ExactPositions ==
    {i \in Indices(fn_in.network_list) :
        CiEq(fn_in.network_list[i].netName, fn_in.csv_name)}

\* C7: find_network_match returns the one network named as the candidate
\* (but for case) if there is exactly one, and else the networks whose
\* name starts with the candidate (but for case), in the order of the list.
C7_TwoTierMatch ==
    fn_out.called =>
        IF Cardinality(ExactPositions) = 1
        THEN fn_out.result =
                 <<fn_in.network_list[CHOOSE i \in ExactPositions : TRUE]>>
        ELSE fn_out.result =
                 SelectSeq(fn_in.network_list,
                           LAMBDA n : CiStarts(n.netName, fn_in.csv_name))

\* one network has the candidate's name while another network's name starts
\* with it, and only the first is returned
C7_Witness ==
    /\ fn_out.called
    /\ Cardinality(ExactPositions) = 1
    /\ \E i \in Indices(fn_in.network_list) :
          /\ i \notin ExactPositions
          /\ CiStarts(fn_in.network_list[i].netName, fn_in.csv_name)
    /\ Len(fn_out.result) = 1

----------------------------------------------------------------------------
(* C8 *)

\* C8: validate_and_extract_prefix accepts a name exactly when its
\* components are at least four, the first two letters, the second three
\* alphanumerics, the third alphanumerics and not empty; it then returns the
\* first three joined by '-', and else a reason.
C8_AcceptsExactlyWellFormed ==
    fn_out.called =>
        LET ap_prefix == fn_out.result[1]
            error_msg == fn_out.result[2]
        IN IF WellFormed(fn_in.parts)
           THEN /\ ap_prefix = join(SubSeq(fn_in.parts, 1, 3))
                /\ error_msg = None
           ELSE /\ ap_prefix = None
                /\ error_msg # None


\* The claim holds of the names none of whose components ends in a newline:
\* '$' also matches before a final newline, so "US\n", "ABC\n" and "P1\n"
\* pass as country code, region code and partner id.
C8_WithoutNewline ==
    (\A i \in Indices(fn_in.parts) : "\n" \notin Range(fn_in.parts[i]))
        => C8_AcceptsExactlyWellFormed

----------------------------------------------------------------------------
(* C10 *)

SecondRunDone == pc = "done" /\ run = 2

SameRecords ==
    /\ ignored_list = prev_run[1].ignored_list
    /\ error_list = prev_run[1].error_list
    /\ validated_list = prev_run[1].validated_list

SameReadOutcomes ==
    \A i \in Indices(reads), j \in Indices(prev_run[1].reads) :
        reads[i].net = prev_run[1].reads[j].net
            => reads[i].fault = prev_run[1].reads[j].fault

----------------------------------------------------------------------------
(* C9 *)

FileRows == Indices(input_file)

DuplicateSerials ==
    \E i, j \in FileRows :
        i # j /\ input_file[i].SerialNumber = input_file[j].SerialNumber

\* a row whose status is not 'good' or whose flag is not 'false', to the letter
OffendingRowLiteral ==
    \E i \in FileRows :
        input_file[i].Status # sGood \/ input_file[i].AlreadyAdded # sFalse

\* the same, the two cells trimmed and compared without regard to case
OffendingRow ==
    \E i \in FileRows :
        \/ ~CiEq(strip(input_file[i].Status, Whitespace), sGood)
        \/ ~CiEq(strip(input_file[i].AlreadyAdded, Whitespace), sFalse)

NoRemoteMutation == claim_calls = <<>> /\ update_calls = <<>>

\* C9 as claimed: a batch with two rows of one serial, or with a row whose
\* status is not 'good' or whose already-added flag is not 'false', gets no
\* claim request and no device update.
C9_BatchRejectedLiteral ==
    (DuplicateSerials \/ OffendingRowLiteral) => NoRemoteMutation

\* C9 as amended: a batch with two rows of one serial, or with a row whose
\* status, trimmed and lower-cased, is not 'good' or whose already-added
\* flag, trimmed and lower-cased, is not 'false', gets no claim request and
\* no device update, and the run ends marked as failed.
C9_BatchRejected ==
    (DuplicateSerials \/ OffendingRow) =>
        /\ NoRemoteMutation
        /\ cpc # "load" => critical_error
        /\ cpc = "end" => renamed_to # "claimed_"

\* a run over a batch of a good row and two rows of one serial has ended
C9_Witness ==
    /\ cpc = "end"
    /\ renamed_to = "error_claimed_"
    /\ DuplicateSerials
    /\ \E i \in FileRows :
          /\ input_file[i].Status = sGood
          /\ input_file[i].AlreadyAdded = sFalse
          /\ \A j \in FileRows :
                j # i => input_file[j].SerialNumber # input_file[i].SerialNumber

----------------------------------------------------------------------------
(* C11 *)

\* the remote reads of the device list of network n, in the order made
ReadsOf(n) == SelectSeq(reads, LAMBDA r : r.net = n)

\* C11: within one validation run getNetworkDevices is called at most once
\* for a network id, however many rows reach get_next_ap_number for that
\* network, and whether the first read returned matching names, returned
\* none, or raised.
C11_AtMostOneRead ==
    Processing =>
        /\ \A n \in NetsCalled :
              /\ Len(ReadsOf(n)) = 1
              /\ CallsOf(n)[1].read
              /\ \A i \in 2..Len(CallsOf(n)) : ~CallsOf(n)[i].read
        /\ \A i \in Indices(reads) : reads[i].net \in NetsCalled

\* three rows of one network whose first read raised, and the rows are done
C11_Witness ==
    /\ pc = "done"
    /\ \E n \in NetsCalled :
          /\ Len(CallsOf(n)) = MaxRows
          /\ CallsOf(n)[1].api_fault
          /\ Len(ReadsOf(n)) = 1

----------------------------------------------------------------------------
(* C12 *)

\* C12: no two validated records of one validation run carry the same
\* AP Name, whatever the manifest and the networks, networks of different
\* ids with one country-region-partner prefix included.
C12_NoDuplicateApNames ==
    \A i, j \in Indices(validated_list) :
        i # j => validated_list[i].APName # validated_list[j].APName

\* two validated records of different networks, neither of whose reads
\* raised, with one AP Name
C12_SamePrefixCollision ==
    \E i, j \in Indices(validated_list) :
        /\ i < j
        /\ validated_list[i].APName = validated_list[j].APName
        /\ validated_list[i].NetworkID # validated_list[j].NetworkID
        /\ \A k \in Indices(issued) : ~issued[k].fault

\* what does hold: the validated records of one network id differ in AP Name
C12_NoDuplicateWithinNetwork ==
    \A i, j \in Indices(validated_list) :
        (i # j /\ validated_list[i].NetworkID = validated_list[j].NetworkID)
            => validated_list[i].APName # validated_list[j].APName

----------------------------------------------------------------------------
(* C13 *)

\* the first get_next_ap_number call for network n
FirstCall(n) == CallsOf(n)[1]

\* 1 + the greatest number among the names <prefix>-AP<NN>-N of the devices
\* of network n, 1 if there is none
NextFree(n, prefix) ==
    IF ExistingNumbers(n, prefix) = {} THEN 1
    ELSE 1 + SetMax(ExistingNumbers(n, prefix))

\* a device of network n has a null name or a null address
HasNullField(n) ==
    \E d \in Range(remote.devices[n]) :
        \/ "name" \in DOMAIN d /\ d.name = None
        \/ "address" \in DOMAIN d /\ d.address = None

\* C13: the first call for a network, when getNetworkDevices returns, returns
\* 1 + the greatest two-digit number among the existing names of the pattern
\* (1 if no name matches), whatever list is returned, lists with devices
\* that have no name or address, or a null one, included.
C13_FirstNumber ==
    \A n \in NetsCalled :
        (FirstCall(n).read /\ ~FirstCall(n).api_fault)
            => FirstCall(n).num = NextFree(n, FirstCall(n).prefix)

\* what does hold: the same, for the lists in which no name or address is
\* null
C13_FirstNumberNoNull ==
    \A n \in NetsCalled :
        (FirstCall(n).read /\ ~FirstCall(n).api_fault /\ ~HasNullField(n))
            => FirstCall(n).num = NextFree(n, FirstCall(n).prefix)

\* the read returned a list with a numbered name and then a null name, and
\* the call returned 1
C13_NullNameRestarts ==
    \E n \in NetsCalled :
        /\ ~FirstCall(n).api_fault
        /\ HasNullField(n)
        /\ ExistingNumbers(n, FirstCall(n).prefix) # {}
        /\ FirstCall(n).num = 1

----------------------------------------------------------------------------
(* C14 *)

\* every row of the manifest has its record in one of the three lists
AllClassified ==
    \A k \in Indices(manifest) : Cardinality(Placements(k)) = 1

\* C14: when the first call's read of a network raises, while the list is
\* fetched or while it is scanned, the call returns number 1 and no address,
\* network_address_cache holds nothing for the network, and the row and the
\* rows after it are still classified.
C14_FaultDegrades ==
    /\ \A n \in NetsCalled :
          FirstCall(n).fault =>
              /\ FirstCall(n).num = 1
              /\ FirstCall(n).address = <<>>
              /\ n \notin DOMAIN network_address_cache
    /\ pc = "done" => AllClassified

\* what does hold: the same, but the address returned is the cached one or
\* the one the scan had found before it raised
C14_FaultKeepsNumberAndCache ==
    /\ \A n \in NetsCalled :
          FirstCall(n).fault =>
              /\ FirstCall(n).num = 1
              /\ FirstCall(n).api_fault => FirstCall(n).address = <<>>
              /\ n \notin DOMAIN network_address_cache
    /\ pc = "done" => AllClassified

----------------------------------------------------------------------------
(* C15 *)

\* the addresses of the devices of network n that are neither missing, null,
\* blank nor the text none, stripped, in list order
RECURSIVE Addresses(_)
Addresses(devices) ==
    IF devices = <<>> THEN <<>>
    ELSE LET d == Head(devices)
             a == IF "address" \in DOMAIN d /\ d.address # None
                  THEN strip(d.address, Whitespace) ELSE <<>>
         IN (IF a # <<>> /\ ~CiEq(a, sNone) THEN <<a>> ELSE <<>>)
                \o Addresses(Tail(devices))

FirstAddress(n) ==
    IF Addresses(remote.devices[n]) = <<>> THEN <<>>
    ELSE Addresses(remote.devices[n])[1]

\* C15: every call for one network id returns the same address, the first
\* non-empty, non-null address of the device list read on the first call,
\* the empty string if there is none; the validated records of one network
\* carry that address.
C15_OneAddressPerNetwork ==
    /\ \A n \in NetsCalled :
          \A k \in Indices(CallsOf(n)) :
              CallsOf(n)[k].address =
                  IF FirstCall(n).api_fault THEN <<>> ELSE FirstAddress(n)
    /\ \A i, j \in Indices(validated_list) :
          validated_list[i].NetworkID = validated_list[j].NetworkID
              => validated_list[i].Address = validated_list[j].Address

\* what does hold: the same for the networks whose lists have no null name
\* or address
C15_OneAddressNoNull ==
    /\ \A n \in NetsCalled :
          ~HasNullField(n) =>
              \A k \in Indices(CallsOf(n)) :
                  CallsOf(n)[k].address =
                      IF FirstCall(n).api_fault THEN <<>> ELSE FirstAddress(n)
    /\ \A i, j \in Indices(validated_list) :
          (/\ validated_list[i].NetworkID = validated_list[j].NetworkID
           /\ ~HasNullField(validated_list[i].NetworkID))
              => validated_list[i].Address = validated_list[j].Address

----------------------------------------------------------------------------
(* C16 *)

NoReason == <<>>

\* the network the text of row k resolves to, when it resolves to one
TheNetwork(k) == (CHOOSE x \in Resolved(RowText(k)) : TRUE).net

\* the get_next_ap_number call of row k
CallOfRow(k) == CHOOSE c \in Range(issued) : c.line = k

\* the row passes the inventory, match, prefix and tag checks
ReachesAllocation(k) ==
    /\ RowSerial(k) \notin DOMAIN dash.inventory_map
    /\ LET r == Resolved(RowText(k))
       IN /\ Cardinality(r) = 1
          /\ LET net == (CHOOSE x \in r : TRUE).net
             IN WellFormed(split(net.name)) /\ HasDiagnosticTag(net.id)

\* the first check row k fails, in the order of the checks; NoReason if it
\* fails none
FirstFailing(k) ==
    IF RowSerial(k) \in DOMAIN dash.inventory_map
    THEN IF Falsy(dash.inventory_map[RowSerial(k)].networkId)
         THEN <<"serial in inventory but not assigned to a network.">>
         ELSE NoReason
    ELSE
      LET r == Resolved(RowText(k))
          net == (CHOOSE x \in r : TRUE).net
          c == CallOfRow(k)
      IN IF Cardinality(r) = 0
         THEN <<"network not found">>
         ELSE IF Cardinality(r) > 1
         THEN <<"potential network name overlap">>
         ELSE IF ~WellFormed(split(net.name))
         THEN validate_and_extract_prefix(net.name)[2]
         ELSE IF ~HasDiagnosticTag(net.id)
         THEN <<"Network missing mandatory 'diagnostic' tag">>
         ELSE IF Len(c.ap_name) >= 50
         THEN <<"AP Name too long", Len(c.ap_name)>>
         ELSE IF c.num > 99
         THEN <<"Progressive number exceeds 99">>
         ELSE NoReason

\* C16: a row is rejected when it fails one of the checks, and its message
\* is that of the first check it fails in the order: in the inventory with
\* no network; no match, or several; the prefix; the diagnostic tag; the
\* length of the name; the number.
C16_FirstFailingCheck ==
    Processing =>
      \A k \in 1..idx :
        /\ ReachesAllocation(k) => \E c \in Range(issued) : c.line = k
        /\ LET reason == FirstFailing(k)
           IN IF reason = NoReason
              THEN ~Rejected(k)
              ELSE /\ Rejected(k)
                   /\ \A p \in Placements(k) :
                         /\ p[1] = "error"
                         /\ RecordAt(p).Messages = reason

\* a row whose name has 50 characters or more and whose number is over 99,
\* and a row whose network has a bad name and no diagnostic tag
C16_Witness ==
    /\ pc = "done"
    /\ \E k \in 1..idx :
          /\ ReachesAllocation(k)
          /\ Len(CallOfRow(k).ap_name) >= 50
          /\ CallOfRow(k).num > 99
          /\ Rejected(k)
    /\ \E k \in 1..idx :
          /\ RowSerial(k) \notin DOMAIN dash.inventory_map
          /\ Cardinality(Resolved(RowText(k))) = 1
          /\ ~WellFormed(split(TheNetwork(k).name))
          /\ ~HasDiagnosticTag(TheNetwork(k).id)
          /\ Rejected(k)

----------------------------------------------------------------------------
(* C17 *)

\* C17: a row that ends before get_next_ap_number is called (already added,
\* in no network, no match, several matches, bad prefix, no diagnostic tag)
\* leaves network_usage_counter and network_address_cache as they were and
\* reads no device list; a row changes the caches only if it passes the
\* match, prefix and tag checks.
C17_EarlyExitFrame ==
    [][(pc = "rows" /\ idx' = idx + 1) =>
          IF ReachesAllocation(idx + 1)
          THEN /\ Len(issued') = Len(issued) + 1
               /\ network_usage_counter' # network_usage_counter
          ELSE UNCHANGED <<network_usage_counter, network_address_cache,
                           reads, issued>>]_vars

\* after a row that filled the caches, two rows that end early, each at
\* another check
C17_Witness ==
    /\ pc = "done"
    /\ idx = MaxRows
    /\ ReachesAllocation(1)
    /\ DOMAIN network_address_cache # {}
    /\ ~ReachesAllocation(2)
    /\ ~ReachesAllocation(3)
    /\ FirstFailing(2) # FirstFailing(3)
    /\ Len(issued) = 1

----------------------------------------------------------------------------
(* C18 *)

\* the batch passes the two checks of the file
PassesPreconditions == ~DuplicateSerials /\ ~OffendingRow

Cell(i, f) == strip(input_file[i][f], Whitespace)

\* the grouping key of row i of the file
RowKey(i) ==
    <<Cell(i, "NetworkID"), Cell(i, "FullNetworkName"),
      Cell(i, "OrgID"), Cell(i, "OrgName")>>

\* the claim requests the serial was sent in
SentIn(s) == {c \in Indices(claim_calls) : s \in Range(claim_calls[c].serials)}

\* a cell of the key of row i is empty
EmptyKeyCell(i) == \E x \in 1..4 : RowKey(i)[x] = <<>>

\* the rows in I are grouped by key, one request per key, each serial in the
\* one request of its key, sent to the network id of its own row
OneClaimPerGroup(I) ==
    /\ \A i \in I :
          /\ Cardinality(SentIn(Cell(i, "SerialNumber"))) = 1
          /\ \A c \in SentIn(Cell(i, "SerialNumber")) :
                claim_calls[c].net_id = Cell(i, "NetworkID")
    /\ \A i, j \in I :
          (RowKey(i) = RowKey(j)) <=>
              (SentIn(Cell(i, "SerialNumber")) = SentIn(Cell(j, "SerialNumber")))
    /\ Len(claim_calls) = Cardinality({RowKey(i) : i \in I})

\* C18: in a claim run whose batch passes the preconditions the rows are
\* partitioned by (network id, network name, organization id, organization
\* name) and one claim request is issued per group, none twice: every serial
\* of the batch is sent in exactly one request, to the network id of its row.
C18_OneClaimPerGroup ==
    (cpc = "end" /\ PassesPreconditions) => OneClaimPerGroup(FileRows)

\* what does hold: the same for the rows with no empty key cell, in a run no
\* look-up of an error's line number stopped
C18_OneClaimPerGroupOfKeyedRows ==
    (cpc = "end" /\ PassesPreconditions /\ ~critical_error)
        => OneClaimPerGroup({i \in FileRows : ~EmptyKeyCell(i)})

\* a run that ended with no error, in which a row with an empty
\* organization name was sent in no request while another row was claimed
C18_RowInNoGroup ==
    /\ cpc = "end"
    /\ PassesPreconditions
    /\ ~critical_error
    /\ claim_calls # <<>>
    /\ \E i \in FileRows :
          EmptyKeyCell(i) /\ SentIn(Cell(i, "SerialNumber")) = {}

----------------------------------------------------------------------------
(* C19 *)

\* the serials of the file
FileSerials == {Cell(i, "SerialNumber") : i \in FileRows}

\* a claim response lists the serial as claimed
ClaimedInResponse(s) ==
    \E c \in Indices(claim_calls) :
        /\ ~claim_calls[c].response.api_error
        /\ s \in Range(claim_calls[c].response.serials)

\* a claim response reports an error for the serial
ErrorInResponse(s) ==
    \E c \in Indices(claim_calls) :
        /\ ~claim_calls[c].response.api_error
        /\ \E e \in Range(get(claim_calls[c].response, "errors", <<>>)) :
              "serial" \in DOMAIN e /\ e.serial = s

\* the claim request of the serial's group raised
InFailedGroup(s) ==
    \E c \in Indices(claim_calls) :
        claim_calls[c].response.api_error /\ s \in Range(claim_calls[c].serials)

UpdatesOf(s) == {u \in Indices(update_calls) : update_calls[u].serial = s}

\* an update is for a serial a response has listed as claimed, is the only
\* one for it and carries the AP name of the serial's row; a serial with a
\* claim error, or of a group whose claim raised, has none
UpdatesFollowClaims ==
    /\ \A u \in Indices(update_calls) :
          LET s == update_calls[u].serial
          IN /\ ClaimedInResponse(s)
             /\ UpdatesOf(s) = {u}
             /\ \E i \in FileRows : Cell(i, "SerialNumber") = s
             /\ \A i \in FileRows :
                   Cell(i, "SerialNumber") = s
                       => update_calls[u].name = Cell(i, "APName")
    /\ \A s \in FileSerials :
          (ErrorInResponse(s) \/ InFailedGroup(s)) => UpdatesOf(s) = {}

\* C19: a device update is issued only for a serial its group's claim
\* response has listed as claimed; each such serial gets exactly one update
\* attempt, with the AP name of its own row; a serial reported as a claim
\* error, or of a group whose claim failed, gets none.
C19_UpdateEachClaimedOnce ==
    PassesPreconditions =>
        /\ UpdatesFollowClaims
        /\ cpc = "end" =>
              \A s \in FileSerials :
                  ClaimedInResponse(s) => Cardinality(UpdatesOf(s)) = 1

\* what does hold: no update but after the claim, at most one per serial,
\* and exactly one in a run no look-up of an error's line number stopped
C19_UpdateOnlyAfterClaim ==
    PassesPreconditions =>
        /\ UpdatesFollowClaims
        /\ (cpc = "end" /\ ~critical_error) =>
              \A s \in FileSerials :
                  ClaimedInResponse(s) => Cardinality(UpdatesOf(s)) = 1

\* a response listed a serial as claimed and the run ended with no update
\* for it
C19_ClaimedNotUpdated ==
    /\ cpc = "end"
    /\ PassesPreconditions
    /\ \E s \in FileSerials : ClaimedInResponse(s) /\ UpdatesOf(s) = {}

----------------------------------------------------------------------------
(* C20 *)

\* a claim run in which every step that can be taken is taken
SpecClaimFair == InitClaim /\ [][NextClaim]_vars /\ WF_vars(NextClaim)

\* every group has had its claim request
AllGroupsAttempted ==
    \A i \in FileRows :
        ~EmptyKeyCell(i) => SentIn(Cell(i, "SerialNumber")) # {}

\* every serial a response listed as claimed has had its update attempt
AllClaimedUpdated ==
    \A s \in FileSerials : ClaimedInResponse(s) => UpdatesOf(s) # {}

\* C20: in a claim run whose batch passes the preconditions no failure of a
\* remote call stops the run: after a claim that raised, after errors in a
\* claim response, whatever serial they name, and after an update that
\* raised, every later group gets its claim request and every claimed serial
\* its update; in the end every group has been attempted.
C20_FailuresNeverStop ==
    PassesPreconditions =>
        <>(cpc = "end" /\ AllGroupsAttempted /\ AllClaimedUpdated)

\* an error of a claim response names no serial of the file
ErrorNamesNoRow ==
    \E c \in Indices(claim_calls) :
        /\ ~claim_calls[c].response.api_error
        /\ \E e \in Range(get(claim_calls[c].response, "errors", <<>>)) :
              get(e, "serial", sUnknown) \notin FileSerials

\* what does hold: the run ends, with every group attempted and every
\* claimed serial updated unless an error named no serial of the file
C20_StopsOnlyOnUnknownSerial ==
    PassesPreconditions =>
        <>(/\ cpc = "end"
           /\ \/ ErrorNamesNoRow
              \/ (~critical_error /\ AllGroupsAttempted /\ AllClaimedUpdated))

\* a claim raised, an update raised, and the run went on to the last group
C20_WentOn ==
    /\ cpc = "end"
    /\ PassesPreconditions
    /\ ~critical_error
    /\ Len(claim_calls) = 2
    /\ claim_calls[1].response.api_error
    /\ failed_serials # <<>>
    /\ update_calls # <<>>

\* an error with no serial stopped the run before the second group
C20_StoppedByUnknownSerial ==
    /\ cpc = "end"
    /\ PassesPreconditions
    /\ ErrorNamesNoRow
    /\ ~AllGroupsAttempted

----------------------------------------------------------------------------
(* C21 *)

\* a precondition of the batch failed, or an exception no handler of the
\* loop catches was raised
RunAborted == ~PassesPreconditions \/ ErrorNamesNoRow

\* a claim raised, a response reported an error for a serial of the file,
\* or an update raised
OnlyHandledFailures ==
    /\ ~RunAborted
    /\ failed_serials # <<>>

\* C21 as claimed: a claim run ends with the input file moved under the
\* error prefix exactly when a precondition of the batch failed or an
\* unhandled exception was raised; a run with only claim failures, claim
\* errors or update failures ends with it moved under the clean prefix; in
\* both cases the file is moved at the end of the run.
C21_FinalState ==
    cpc = "end" =>
        /\ renamed_to = "error_claimed_" <=> RunAborted
        /\ renamed_to = "claimed_" <=> ~RunAborted

\* C21 as amended: the move is attempted at the end of every run; when it
\* succeeds the file has the error prefix exactly when the run was aborted
\* and the clean prefix otherwise; when it fails the file stays where it
\* was. critical_error tells the two ends apart in both cases.
C21_FinalStateIfMoved ==
    /\ cpc = "end" =>
          /\ critical_error <=> RunAborted
          /\ renamed_to \in {"INPUT_FILE",
                             IF RunAborted THEN "error_claimed_" ELSE "claimed_"}
    /\ cpc # "end" => renamed_to = "INPUT_FILE"

\* a run with a claim that raised and an update that raised ended with the
\* file moved under the clean prefix
C21_Witness ==
    /\ cpc = "end"
    /\ OnlyHandledFailures
    /\ \E c \in Indices(claim_calls) : claim_calls[c].response.api_error
    /\ update_calls # <<>>
    /\ renamed_to = "claimed_"

\* a run stopped by an error that names no serial of the file ended with
\* the file moved under the error prefix
C21_AbortedMarked ==
    /\ cpc = "end"
    /\ PassesPreconditions
    /\ ErrorNamesNoRow
    /\ renamed_to = "error_claimed_"

----------------------------------------------------------------------------
(* C22 *)

\* the names of the devices of network n in the directory
ExistingNames(n) ==
    {d.name : d \in {x \in Range(remote.devices[n]) :
                        "name" \in DOMAIN x /\ x.name # None}}

\* C22: no validated record has an AP Name that a device of its network
\* already has in the directory, whatever the device list and whether the
\* read of it returned or raised and the numbering started from 0.
C22_NoExistingName ==
    \A i \in Indices(validated_list) :
        validated_list[i].APName \notin ExistingNames(validated_list[i].NetworkID)

\* what does hold: the same for the networks whose read and scan of the
\* device list went through
C22_NoExistingNameAfterRead ==
    \A i \in Indices(validated_list) :
        ~FirstCall(validated_list[i].NetworkID).fault =>
            validated_list[i].APName
                \notin ExistingNames(validated_list[i].NetworkID)

\* the read of a network raised and a validated record has the name of one
\* of the network's devices
C22_ExistingNameAfterFault ==
    \E i \in Indices(validated_list) :
        /\ FirstCall(validated_list[i].NetworkID).api_fault
        /\ validated_list[i].APName \in ExistingNames(validated_list[i].NetworkID)

====
